---- MODULE Spec2Model ----
(***************************************************************************)
(* A model of wordle-artist (src/src/main.rs).                             *)
(*                                                                         *)
(* A char is its Unicode code point; a &str / String is a sequence of      *)
(* chars; a Vec is a sequence; a HashMap is a function whose DOMAIN is the *)
(* set of keys present; a HashSet is a set.  Sequences are 1-based here,   *)
(* the source's indices are 0-based.                                       *)
(*                                                                         *)
(* The module holds five specifications over one set of variables:         *)
(*   SpecMatch    does_match, one step per loop iteration                  *)
(*   SpecPattern  pattern_from_string                                      *)
(*   SpecFind     find_matches, one step per parallel evaluation           *)
(*   SpecFormat   format_example, one step per row                         *)
(*   Spec         main, end to end                                         *)
(***************************************************************************)
EXTENDS Integers, Sequences, FiniteSets, TLC

VARIABLES
    pc,             \* the position of the running function
    solution,       \* args.solution / does_match's and find_matches's solution
    all_words,      \* the dictionary
    goal_row,       \* does_match's and find_matches's goal_row
    test_word,      \* does_match's test_word
    unused_counts,  \* does_match's HashMap<char, usize>
    zip_i,          \* does_match: the next position of the izip! loop
    result,         \* does_match's return value
    evaluated,      \* find_matches: index -> "pending" | "keep" | "drop"
    done_order,     \* find_matches: the indices in the order their evaluations completed
    matches,        \* find_matches's return value
    art,            \* args.pattern / args.artfile
    format,         \* args.format
    goal_shape,     \* pattern_from_string's return value / main's goal_shape
    answer,         \* main's answer / format_example's answer
    lines,          \* format_example's lines
    used_words,     \* format_example's used_words
    row_answers,    \* format_example's row_answers of the row being rendered
    weights,        \* format_example's weights of the row being rendered
    output          \* the text main prints

vars == <<pc, solution, all_words, goal_row, test_word, unused_counts, zip_i,
          result, evaluated, done_order, matches, art, format, goal_shape,
          answer, lines, used_words, row_answers, weights, output>>

dmVars == <<test_word, unused_counts, zip_i, result>>
fmVars == <<evaluated, done_order, matches>>
feVars == <<lines, used_words, row_answers, weights>>
mainVars == <<art, format, goal_shape, answer, output>>

WORD_LENGTH == 5
GUESS_COUNT == 6

(***************************************************************************)
(* Bounds of the model.                                                    *)
(***************************************************************************)
\* SpecMatch draws words over the letters 'a' .. 'a' + AlphabetSize - 1.
AlphabetSize == 2

Min(a, b) == IF a < b THEN a ELSE b

(***************************************************************************)
(* chars and strings                                                       *)
(***************************************************************************)
\* char::to_lowercase on the chars the model uses: ASCII and Latin-1 letters.
char_to_lowercase(c) ==
    IF (c >= 65 /\ c <= 90) \/ (c >= 192 /\ c <= 222 /\ c # 215) THEN c + 32 ELSE c

\* char::to_uppercase on the chars the model uses (the model has no U+00DF and
\* no U+00FF, whose upper case is not c - 32).
char_to_uppercase(c) ==
    IF (c >= 97 /\ c <= 122) \/ (c >= 224 /\ c <= 254 /\ c # 247) THEN c - 32 ELSE c

\* str::to_lowercase
to_lowercase(s) == [k \in 1..Len(s) |-> char_to_lowercase(s[k])]

\* str::to_uppercase
to_uppercase(s) == [k \in 1..Len(s) |-> char_to_uppercase(s[k])]

\* The number of bytes of a char's UTF-8 encoding.
len_utf8(c) == IF c < 128 THEN 1 ELSE IF c < 2048 THEN 2 ELSE IF c < 65536 THEN 3 ELSE 4

RECURSIVE SumLenUtf8(_, _)
SumLenUtf8(s, k) == IF k = 0 THEN 0 ELSE SumLenUtf8(s, k - 1) + len_utf8(s[k])

\* String::len: the length in bytes, not in chars.
str_len(s) == SumLenUtf8(s, Len(s))

(***************************************************************************)
(* does_match                                                              *)
(***************************************************************************)
\* HashMap::entry(k).or_default(): the map with k present.
entry_or_default(m, k) == IF k \in DOMAIN m THEN m ELSE m @@ (k :> 0)

\* HashMap::get(k).unwrap_or(&0)
get_or_zero(m, k) == IF k \in DOMAIN m THEN m[k] ELSE 0

\* A plain set in place of the multiset: a char's count never exceeds 1.
count_char_plain_set(m, char) ==
    LET e == entry_or_default(m, char) IN [e EXCEPT ![char] = 1]

\* One iteration of the first loop: *entry(char).or_default() += 1.
count_char(m, char) ==
    LET e == entry_or_default(m, char) IN [e EXCEPT ![char] = @ + 1]

RECURSIVE CountPrefix(_, _)
CountPrefix(s, k) == IF k = 0 THEN <<>> ELSE count_char(CountPrefix(s, k - 1), s[k])

\* The first loop: the multiset of the solution's chars.
count_solution(s) == CountPrefix(s, Len(s))

\* The number of iterations of izip!: it stops with its shortest iterator.
zip_len(t, s, g) == Min(Len(t), Min(Len(s), Len(g)))

\* The loop body without its "if does_match": the count of every accepted
\* position's char is decremented.
zip_step_always_decrement(t, s, g, m, k) ==
    LET does_match_here == t[k] = s[k]
        e == entry_or_default(m, t[k])
    IN  IF g[k] # does_match_here
        THEN [kind |-> "reject", counts |-> m]
        ELSE IF e[t[k]] = 0
        THEN [kind |-> "underflow", counts |-> e]
        ELSE [kind |-> "next", counts |-> [e EXCEPT ![t[k]] = @ - 1]]

\* The loop body rejecting only a marked position that is not green: a green
\* at an unmarked position passes.
zip_step_required_only(t, s, g, m, k) ==
    LET does_match_here == t[k] = s[k]
        e == entry_or_default(m, t[k])
    IN  IF g[k] /\ ~does_match_here
        THEN [kind |-> "reject", counts |-> m]
        ELSE IF ~does_match_here
        THEN [kind |-> "next", counts |-> m]
        ELSE IF e[t[k]] = 0
        THEN [kind |-> "underflow", counts |-> e]
        ELSE [kind |-> "next", counts |-> [e EXCEPT ![t[k]] = @ - 1]]

\* The body of the izip! loop at (1-based) position k with the map m:
\* "reject" (return false), "underflow" (the usize subtraction overflows: a
\* panic in a debug build, a wrapped count in a release build), or "next".
zip_step(t, s, g, m, k) ==
    LET does_match_here == t[k] = s[k]
        e == entry_or_default(m, t[k])
    IN  IF g[k] # does_match_here
        THEN [kind |-> "reject", counts |-> m]
        ELSE IF ~does_match_here
        THEN [kind |-> "next", counts |-> m]
        ELSE IF e[t[k]] = 0
        THEN [kind |-> "underflow", counts |-> e]
        ELSE [kind |-> "next", counts |-> [e EXCEPT ![t[k]] = @ - 1]]

\* The final iteration over the chars of test_word (goal_row[i] indexes: a
\* test_word longer than goal_row is outside the model).
final_all(t, g, m) == \A k \in 1..Len(t) : g[k] \/ get_or_zero(m, t[k]) = 0

\* The izip! loop from position k on, run to its end.
RECURSIVE zip_from(_, _, _, _, _)
zip_from(t, s, g, m, k) ==
    IF k > zip_len(t, s, g)
    THEN [kind |-> "next", counts |-> m]
    ELSE LET st == zip_step(t, s, g, m, k)
         IN  IF st.kind = "next" THEN zip_from(t, s, g, st.counts, k + 1) ELSE st

\* does_match as a function of its arguments.
does_match(t, s, g) ==
    LET z == zip_from(t, s, g, count_solution(s), 1)
    IN  z.kind = "next" /\ final_all(t, g, z.counts)

\* does_match, step by step.
CountSolution ==
    /\ pc = "dm_count"
    /\ unused_counts' = count_solution(solution)
    /\ zip_i' = 1
    /\ pc' = "dm_zip"
    /\ UNCHANGED <<solution, all_words, goal_row, test_word, result>>
    /\ UNCHANGED <<fmVars, feVars, mainVars>>

ZipStep ==
    /\ pc = "dm_zip"
    /\ zip_i <= zip_len(test_word, solution, goal_row)
    /\ LET st == zip_step(test_word, solution, goal_row, unused_counts, zip_i)
       IN  /\ unused_counts' = st.counts
           /\ zip_i' = zip_i + 1
           /\ pc' = CASE st.kind = "reject" -> "dm_done"
                      [] st.kind = "underflow" -> "dm_underflow"
                      [] OTHER -> "dm_zip"
           /\ result' = IF st.kind = "reject" THEN FALSE ELSE result
    /\ UNCHANGED <<solution, all_words, goal_row, test_word>>
    /\ UNCHANGED <<fmVars, feVars, mainVars>>

FinalCheck ==
    /\ pc = "dm_zip"
    /\ zip_i > zip_len(test_word, solution, goal_row)
    /\ result' = final_all(test_word, goal_row, unused_counts)
    /\ pc' = "dm_done"
    /\ UNCHANGED <<solution, all_words, goal_row, test_word, unused_counts, zip_i>>
    /\ UNCHANGED <<fmVars, feVars, mainVars>>

Alphabet == 97..(96 + AlphabetSize)
MatchWords == [1..WORD_LENGTH -> Alphabet]
GoalRows == [1..WORD_LENGTH -> BOOLEAN]

InitMatch ==
    /\ pc = "dm_count"
    /\ test_word \in MatchWords
    /\ solution \in MatchWords
    /\ goal_row \in GoalRows
    /\ unused_counts = <<>>
    /\ zip_i = 0
    /\ result = FALSE
    /\ all_words = <<>>
    /\ evaluated = <<>> /\ done_order = <<>> /\ matches = <<>>
    /\ art = <<>> /\ format = "none" /\ goal_shape = <<>> /\ answer = <<>>
    /\ lines = <<>> /\ used_words = {} /\ row_answers = <<>> /\ weights = <<>>
    /\ output = <<>>

NextMatch == CountSolution \/ ZipStep \/ FinalCheck

SpecMatch == InitMatch /\ [][NextMatch]_vars

(***************************************************************************)
(* pattern_from_string, pattern_for_line                                   *)
(***************************************************************************)
SLASH == 47
NEWLINE == 10
SPACE == 32

\* A separator that takes '/' alone: a newline no longer splits.
is_separator_slash_only(c) == c = SLASH

\* The pattern of str::split: &['/', '\n'][..]
is_separator(c) == c = SLASH \/ c = NEWLINE

\* str::split: the pieces between the separators, one more than there are
\* separators (the empty string splits into one empty piece).
RECURSIVE split(_)
split(s) ==
    IF \A k \in 1..Len(s) : ~is_separator(s[k])
    THEN <<s>>
    ELSE LET k == CHOOSE j \in 1..Len(s) :
                      is_separator(s[j]) /\ \A q \in 1..(j - 1) : ~is_separator(s[q])
         IN  <<SubSeq(s, 1, k - 1)>> \o split(SubSeq(s, k + 1, Len(s)))

\* A line whose '.' counts as blank, like a space.
pattern_for_line_dot_blank(line) ==
    LET taken == [k \in 1..WORD_LENGTH |-> IF k <= Len(line) THEN line[k] ELSE SPACE]
    IN  [k \in 1..WORD_LENGTH |-> taken[k] # SPACE /\ taken[k] # 46]

\* chars().chain(repeat(' ')).take(WORD_LENGTH).map(|c| c != ' ')
pattern_for_line(line) ==
    LET taken == [k \in 1..WORD_LENGTH |-> IF k <= Len(line) THEN line[k] ELSE SPACE]
    IN  [k \in 1..WORD_LENGTH |-> taken[k] # SPACE]

\* split(..).map(pattern_for_line).chain(repeat(vec![false; WORD_LENGTH]))
\*     .take(GUESS_COUNT)
pattern_from_string(string) ==
    LET pieces == split(string)
        rows == [r \in 1..Len(pieces) |-> pattern_for_line(pieces[r])]
    IN  [r \in 1..GUESS_COUNT |->
            IF r <= Len(rows) THEN rows[r] ELSE [k \in 1..WORD_LENGTH |-> FALSE]]

PatternFromString ==
    /\ pc = "pat_start"
    /\ goal_shape' = pattern_from_string(art.text)
    /\ pc' = "pat_done"
    /\ UNCHANGED <<solution, all_words, goal_row, art, format, answer, output>>
    /\ UNCHANGED <<dmVars, fmVars, feVars>>

\* The longest pattern text SpecPattern draws.
MaxTextLen == 8

\* '/', '\n', ' ' and one mark, 'A'.
PatternChars == {SLASH, NEWLINE, SPACE, 65}
PatternTexts == UNION {[1..n -> PatternChars] : n \in 0..MaxTextLen}

InitPattern ==
    /\ pc = "pat_start"
    /\ art \in [kind : {"pattern"}, text : PatternTexts]
    /\ goal_shape = <<>>
    /\ solution = <<>> /\ all_words = <<>> /\ goal_row = <<>>
    /\ test_word = <<>> /\ unused_counts = <<>> /\ zip_i = 0 /\ result = FALSE
    /\ evaluated = <<>> /\ done_order = <<>> /\ matches = <<>>
    /\ format = "none" /\ answer = <<>>
    /\ lines = <<>> /\ used_words = {} /\ row_answers = <<>> /\ weights = <<>>
    /\ output = <<>>

NextPattern == PatternFromString

SpecPattern == InitPattern /\ [][NextPattern]_vars

(***************************************************************************)
(* find_matches                                                            *)
(***************************************************************************)
\* The filter's closure on one dictionary entry.
keeps(test_word_, solution_, goal_row_) ==
    does_match(test_word_, to_lowercase(solution_), goal_row_)

RECURSIVE FilterFrom(_, _, _, _)
FilterFrom(words, solution_, goal_row_, k) ==
    IF k > Len(words) THEN <<>>
    ELSE (IF keeps(words[k], solution_, goal_row_) THEN <<words[k]>> ELSE <<>>)
             \o FilterFrom(words, solution_, goal_row_, k + 1)

\* find_matches as a function of its arguments: rayon's collect into a Vec
\* keeps the order of the source slice.
find_matches(words, solution_, goal_row_) == FilterFrom(words, solution_, goal_row_, 1)

RECURSIVE KeptInOrder(_, _, _)
KeptInOrder(words, verdicts, order) ==
    IF order = <<>> THEN <<>>
    ELSE (IF verdicts[Head(order)] = "keep" THEN <<words[Head(order)]>> ELSE <<>>)
             \o KeptInOrder(words, verdicts, Tail(order))

\* A collect that takes the kept words in the order their evaluations ended.
collect_as_completed(words, verdicts, completed) ==
    KeptInOrder(words, verdicts, completed)

\* collect(): the kept words in the order of their indices in the slice.
collect(words, verdicts, completed) ==
    KeptInOrder(words, verdicts, [k \in 1..Len(words) |-> k])

\* A worker evaluates the filter's closure on entry k; any pending entry may be
\* the next to complete.
Evaluate(k) ==
    /\ pc = "fm_eval"
    /\ evaluated[k] = "pending"
    /\ evaluated' = [evaluated EXCEPT ![k] =
                        IF keeps(all_words[k], solution, goal_row) THEN "keep" ELSE "drop"]
    /\ done_order' = Append(done_order, k)
    /\ UNCHANGED <<pc, solution, all_words, goal_row, matches>>
    /\ UNCHANGED <<dmVars, feVars, mainVars>>

Collect ==
    /\ pc = "fm_eval"
    /\ \A k \in 1..Len(all_words) : evaluated[k] # "pending"
    /\ matches' = collect(all_words, evaluated, done_order)
    /\ pc' = "fm_done"
    /\ UNCHANGED <<solution, all_words, goal_row, evaluated, done_order>>
    /\ UNCHANGED <<dmVars, feVars, mainVars>>

S_speed == <<115, 112, 101, 101, 100>>   \* "speed"
S_sassy == <<115, 97, 115, 115, 121>>   \* "sassy"
S_sully == <<115, 117, 108, 108, 121>>   \* "sully"
S_sneer == <<115, 110, 101, 101, 114>>   \* "sneer"
S_SPEED == <<83, 80, 69, 69, 68>>   \* "SPEED"

\* The longest dictionary SpecFind draws.
MaxDict == 3

FindWordPool == {S_speed, S_SPEED, S_sassy, S_sully, S_sneer}
FindSolutions == {S_SPEED, S_speed}
OnlyFirst == <<TRUE, FALSE, FALSE, FALSE, FALSE>>
FindGoalRows == {OnlyFirst,
                 <<TRUE, TRUE, TRUE, TRUE, TRUE>>,
                 <<FALSE, FALSE, FALSE, FALSE, FALSE>>}

InitFind ==
    /\ pc = "fm_eval"
    /\ all_words \in UNION {[1..n -> FindWordPool] : n \in 0..MaxDict}
    /\ solution \in FindSolutions
    /\ goal_row \in FindGoalRows
    /\ evaluated = [k \in 1..Len(all_words) |-> "pending"]
    /\ done_order = <<>>
    /\ matches = <<>>
    /\ test_word = <<>> /\ unused_counts = <<>> /\ zip_i = 0 /\ result = FALSE
    /\ art = <<>> /\ format = "none" /\ goal_shape = <<>> /\ answer = <<>>
    /\ lines = <<>> /\ used_words = {} /\ row_answers = <<>> /\ weights = <<>>
    /\ output = <<>>

NextFind == (\E k \in 1..Len(all_words) : Evaluate(k)) \/ Collect

SpecFind == InitFind /\ [][NextFind]_vars

(***************************************************************************)
(* format_example                                                          *)
(***************************************************************************)
NO_SOLUTION == <<91, 110, 111, 32, 115, 111, 108, 117, 116, 105, 111, 110, 93>>   \* "[no solution]"

Range(f) == {f[k] : k \in DOMAIN f}

\* Itertools::join / [String]::join: the items with sep between them.
RECURSIVE join(_, _)
join(items, sep) ==
    IF items = <<>> THEN <<>>
    ELSE IF Len(items) = 1 THEN items[1]
    ELSE items[1] \o sep \o join(Tail(items), sep)

\* A pool that ignores used_words: always the row's whole Candidate List.
sampling_pool_ignoring_used(all_row_answers, used) == all_row_answers

\* row_answers: the row's candidates not yet used, or all of them when none
\* is unused.
sampling_pool(all_row_answers, used) ==
    LET unused_row_answers == SelectSeq(all_row_answers, LAMBDA word : word \notin used)
    IN  IF unused_row_answers = <<>> THEN all_row_answers ELSE unused_row_answers

\* Weights without the rev(): ascending squares.
weights_not_reversed(n) == [k \in 1..n |-> k * k]

\* (1..=n).rev().map(|w| w * w)
weights_of(n) ==
    LET reversed == [k \in 1..n |-> n + 1 - k]
    IN  [k \in 1..n |-> reversed[k] * reversed[k]]

RECURSIVE SumTo(_, _)
SumTo(w, k) == IF k = 0 THEN 0 ELSE SumTo(w, k - 1) + w[k]

\* WeightedIndex::new(&weights) is Ok: there is an item and the weights are
\* not all zero (a usize weight is never negative).
weighted_index_ok(w) == Len(w) > 0 /\ SumTo(w, Len(w)) > 0

\* The indices dist.sample(&mut rng) can return: those of positive weight.
sample_support(w) == {k \in 1..Len(w) : w[k] > 0}

\* The head of the loop body: the sampling pool and its weights.
PrepareRow ==
    /\ pc = "fe_row"
    /\ Len(lines) < Len(answer)
    /\ row_answers' = sampling_pool(answer[Len(lines) + 1], used_words)
    /\ weights' = weights_of(Len(row_answers'))
    /\ pc' = "fe_sample"
    /\ UNCHANGED <<solution, all_words, goal_row, lines, used_words>>
    /\ UNCHANGED <<dmVars, fmVars, mainVars>>

\* The Err arm with an unwrap() in place of the sentinel.
EmitNoSolutionPanics ==
    /\ pc = "fe_sample"
    /\ ~weighted_index_ok(weights)
    /\ pc' = "panicked"
    /\ UNCHANGED <<solution, all_words, goal_row, feVars>>
    /\ UNCHANGED <<dmVars, fmVars, mainVars>>

\* Ok(dist): the word at the sampled index is pushed in upper case and marked
\* used.
EmitWord(k) ==
    /\ pc = "fe_sample"
    /\ weighted_index_ok(weights)
    /\ k \in sample_support(weights)
    /\ lines' = Append(lines, to_uppercase(row_answers[k]))
    /\ used_words' = used_words \cup {row_answers[k]}
    /\ pc' = "fe_row"
    /\ UNCHANGED <<solution, all_words, goal_row, row_answers, weights>>
    /\ UNCHANGED <<dmVars, fmVars, mainVars>>

\* Err(_): the sentinel is pushed.
EmitNoSolution ==
    /\ pc = "fe_sample"
    /\ ~weighted_index_ok(weights)
    /\ lines' = Append(lines, NO_SOLUTION)
    /\ pc' = "fe_row"
    /\ UNCHANGED <<solution, all_words, goal_row, used_words, row_answers, weights>>
    /\ UNCHANGED <<dmVars, fmVars, mainVars>>

\* lines.join("\n")
JoinLines ==
    /\ pc = "fe_row"
    /\ Len(lines) = Len(answer)
    /\ output' = join(lines, <<NEWLINE>>)
    /\ pc' = "print"
    /\ UNCHANGED <<solution, all_words, goal_row, art, format, goal_shape, answer>>
    /\ UNCHANGED <<dmVars, fmVars, feVars>>

S_about == <<97, 98, 111, 117, 116>>   \* "about"
S_aches == <<97, 99, 104, 101, 115>>   \* "aches"
S_amass == <<97, 109, 97, 115, 115>>   \* "amass"
S_audio == <<97, 117, 100, 105, 111>>   \* "audio"

\* SpecFormat draws each row's Candidate List from the first PoolSize words of
\* the dictionary below, and Answers of 1 .. MaxRows rows.
PoolSize == 3
MaxRows == 3

FormatDict == <<S_about, S_aches, S_speed, S_amass, S_audio>>

\* The subsequences of a sequence, in its order.
Subsequences(seq) ==
    {SelectSeq([k \in 1..Len(seq) |-> <<seq[k], mask[k]>>], LAMBDA e : e[2]) :
        mask \in [1..Len(seq) -> BOOLEAN]}
WordsOf(pairs) == [k \in 1..Len(pairs) |-> pairs[k][1]]
CandidateLists == {WordsOf(p) : p \in Subsequences(SubSeq(FormatDict, 1, PoolSize))}

InitFormat ==
    /\ pc = "fe_row"
    /\ answer \in UNION {[1..n -> CandidateLists] : n \in 1..MaxRows}
    /\ lines = <<>>
    /\ used_words = {}
    /\ row_answers = <<>>
    /\ weights = <<>>
    /\ output = <<>>
    /\ solution = <<>> /\ all_words = <<>> /\ goal_row = <<>>
    /\ test_word = <<>> /\ unused_counts = <<>> /\ zip_i = 0 /\ result = FALSE
    /\ evaluated = <<>> /\ done_order = <<>> /\ matches = <<>>
    /\ art = <<>> /\ format = "example" /\ goal_shape = <<>>

NextFormat ==
    \/ PrepareRow
    \/ \E k \in 1..Len(weights) : EmitWord(k)
    \/ EmitNoSolution
    \/ JoinLines

SpecFormat == InitFormat /\ [][NextFormat]_vars

(***************************************************************************)
(* format_full, main                                                       *)
(***************************************************************************)
\* line.iter().cloned().map(str::to_uppercase).join(" "), the lines joined
\* by "\n"
format_full(answer_) ==
    join([r \in 1..Len(answer_) |->
             join([k \in 1..Len(answer_[r]) |-> to_uppercase(answer_[r][k])], <<SPACE>>)],
         <<NEWLINE>>)

\* The condition of main's assert!: args.solution.len() == WORD_LENGTH
solution_length_ok(solution_) == str_len(solution_) = WORD_LENGTH

\* assert!(args.solution.len() == WORD_LENGTH, "Solution should be 5 letters")
AssertSolutionLength ==
    /\ pc = "main"
    /\ pc' = IF solution_length_ok(solution) THEN "goal_shape" ELSE "panicked"
    /\ UNCHANGED <<solution, all_words, goal_row>>
    /\ UNCHANGED <<dmVars, fmVars, feVars, mainVars>>

\* let goal_shape = match (args.pattern, args.artfile) { .. }: the pattern, or
\* the artfile's contents; an unreadable artfile fails the expect().
BuildGoalShape ==
    /\ pc = "goal_shape"
    /\ IF art.kind = "unreadable"
       THEN pc' = "panicked" /\ UNCHANGED goal_shape
       ELSE pc' = "search" /\ goal_shape' = pattern_from_string(art.text)
    /\ UNCHANGED <<solution, all_words, goal_row, art, format, answer, output>>
    /\ UNCHANGED <<dmVars, fmVars, feVars>>

\* One goal row of goal_shape.iter().map(|goal_row| find_matches(..)).
FindRow ==
    /\ pc = "search"
    /\ Len(answer) < Len(goal_shape)
    /\ answer' = Append(answer, find_matches(all_words, solution, goal_shape[Len(answer) + 1]))
    /\ UNCHANGED <<pc, solution, all_words, goal_row, art, format, goal_shape, output>>
    /\ UNCHANGED <<dmVars, fmVars, feVars>>

\* let formatter = match args.format.unwrap_or(OutputFormat::Example) { .. }
SelectFormatter ==
    /\ pc = "search"
    /\ Len(answer) = Len(goal_shape)
    /\ pc' = IF format = "full" THEN "full" ELSE "fe_row"
    /\ UNCHANGED <<solution, all_words, goal_row>>
    /\ UNCHANGED <<dmVars, fmVars, feVars, mainVars>>

FormatFull ==
    /\ pc = "full"
    /\ output' = format_full(answer)
    /\ pc' = "print"
    /\ UNCHANGED <<solution, all_words, goal_row, art, format, goal_shape, answer>>
    /\ UNCHANGED <<dmVars, fmVars, feVars>>

\* println!("{}", ..)
Println ==
    /\ pc = "print"
    /\ output' = Append(output, NEWLINE)
    /\ pc' = "done"
    /\ UNCHANGED <<solution, all_words, goal_row, art, format, goal_shape, answer>>
    /\ UNCHANGED <<dmVars, fmVars, feVars>>

S_ABOUT == <<65, 66, 79, 85, 84>>   \* "ABOUT"
S_cafe == <<99, 97, 102, 233>>   \* "café": 4 chars, 5 bytes
S_eclat == <<233, 99, 108, 97, 116>>   \* "éclat": 5 chars, 6 bytes
S_abou == <<97, 98, 111, 117>>   \* "abou"
S_abouts == <<97, 98, 111, 117, 116, 115>>   \* "abouts"
P_A_dots == <<65, 46, 46, 46, 46>>   \* "A...."
P_A == <<65>>   \* "A"
P_A_spaces == <<65, 32, 32, 32, 32>>   \* "A    "
P_rows == <<65, 47, 32, 66, 10, 32, 32, 67>>   \* "A/ B\n  C"

MainSolutions == {S_ABOUT, S_about, S_SPEED, S_cafe, S_eclat, S_abou, S_abouts}
MainArts ==
    [kind : {"pattern"}, text : {P_A_dots, P_A, P_A_spaces, P_rows}]
        \cup [kind : {"artfile"}, text : {P_A, P_rows}]
        \cup [kind : {"unreadable"}, text : {<<>>}]
MainDicts == {WordsOf(p) : p \in Subsequences(FormatDict)}

Init ==
    /\ pc = "main"
    /\ solution \in MainSolutions
    /\ art \in MainArts
    /\ format \in {"none", "example", "full"}
    /\ all_words \in MainDicts
    /\ goal_shape = <<>>
    /\ answer = <<>>
    /\ output = <<>>
    /\ lines = <<>> /\ used_words = {} /\ row_answers = <<>> /\ weights = <<>>
    /\ goal_row = <<>>
    /\ test_word = <<>> /\ unused_counts = <<>> /\ zip_i = 0 /\ result = FALSE
    /\ evaluated = <<>> /\ done_order = <<>> /\ matches = <<>>

Next ==
    \/ AssertSolutionLength
    \/ BuildGoalShape
    \/ FindRow
    \/ SelectFormatter
    \/ FormatFull
    \/ PrepareRow
    \/ \E k \in 1..Len(weights) : EmitWord(k)
    \/ EmitNoSolution
    \/ JoinLines
    \/ Println

Spec == Init /\ [][Next]_vars

(***************************************************************************)
(* Wordle's scoring rule, stated apart from does_match.                    *)
(***************************************************************************)
Chars(w) == {w[k] : k \in 1..Len(w)}
Occurrences(w, x) == Cardinality({k \in 1..Len(w) : w[k] = x})
GreenAt(c, s, k) == k <= Len(s) /\ c[k] = s[k]
GreensOf(c, s, x) == Cardinality({k \in 1..Len(c) : GreenAt(c, s, k) /\ c[k] = x})

\* What the greens leave of each letter of the solution.
AfterGreens(c, s) ==
    [x \in Chars(c) \cup Chars(s) |-> Occurrences(s, x) - GreensOf(c, s, x)]

\* The colours of positions k.. of guess c against s, the greens resolved and
\* rem left: a yellow is given, left to right, while an occurrence remains.
RECURSIVE ColoursFrom(_, _, _, _)
ColoursFrom(c, s, k, rem) ==
    IF k > Len(c) THEN <<>>
    ELSE IF GreenAt(c, s, k) THEN <<"green">> \o ColoursFrom(c, s, k + 1, rem)
    ELSE IF rem[c[k]] > 0
    THEN <<"yellow">> \o ColoursFrom(c, s, k + 1, [rem EXCEPT ![c[k]] = @ - 1])
    ELSE <<"grey">> \o ColoursFrom(c, s, k + 1, rem)

WordleColours(c, s) == ColoursFrom(c, s, 1, AfterGreens(c, s))

\* The guess shows exactly the goal row: green where marked, grey elsewhere.
ShowsGoalRow(c, s, g) ==
    LET col == WordleColours(c, s)
    IN  \A k \in 1..Len(c) : col[k] = (IF g[k] THEN "green" ELSE "grey")

(***************************************************************************)
(* Claims about does_match (SpecMatch)                                     *)
(***************************************************************************)
\* C1: does_match returns true exactly when Wordle's scoring of test_word
\* against solution is green where goal_row is true and grey where it is
\* false; in particular it returns false when some position's greenness
\* differs from goal_row.
C1_MatchesWordleScoring ==
    pc = "dm_done" =>
        /\ result = ShowsGoalRow(test_word, solution, goal_row)
        /\ (\E k \in 1..WORD_LENGTH :
                (test_word[k] = solution[k]) # goal_row[k]) => (result = FALSE)

\* A match in which an unmarked position holds a letter of the solution whose
\* occurrences the greens have all consumed.
C1_Witness ==
    /\ pc = "dm_done"
    /\ result = TRUE
    /\ \E k \in 1..WORD_LENGTH :
          ~goal_row[k] /\ test_word[k] \in Chars(solution)

\* C10: every decrement in does_match finds a strictly positive count, no
\* count is ever negative, and when the izip! loop ends without rejecting each
\* letter's count is its occurrences in the solution less its green positions.
C10_NoUnderflow ==
    /\ pc # "dm_underflow"
    /\ pc \in {"dm_zip", "dm_done"} =>
          \A x \in DOMAIN unused_counts : unused_counts[x] >= 0
    /\ (pc = "dm_zip" /\ zip_i <= zip_len(test_word, solution, goal_row)
          /\ test_word[zip_i] = solution[zip_i] /\ goal_row[zip_i]) =>
          get_or_zero(unused_counts, test_word[zip_i]) > 0
    /\ (pc = "dm_zip" /\ zip_i > zip_len(test_word, solution, goal_row)) =>
          \A x \in Chars(test_word) \cup Chars(solution) :
              get_or_zero(unused_counts, x)
                  = Occurrences(solution, x) - GreensOf(test_word, solution, x)

\* The loop has ended without rejecting and has decremented a count twice.
C10_Witness ==
    /\ pc = "dm_zip"
    /\ zip_i > zip_len(test_word, solution, goal_row)
    /\ \E x \in DOMAIN unused_counts :
          unused_counts[x] + 2 <= Occurrences(solution, x)

(***************************************************************************)
(* The pieces of a text between separators, stated apart from split.       *)
(***************************************************************************)
SepsBefore(t, seps, p) == Cardinality({q \in 1..(p - 1) : t[q] \in seps})
PieceCount(t, seps) == SepsBefore(t, seps, Len(t) + 1) + 1
\* The position of the n-th separator; 0 for n = 0, Len(t) + 1 past the last.
NthSep(t, seps, n) ==
    IF n = 0 THEN 0
    ELSE IF n >= PieceCount(t, seps) THEN Len(t) + 1
    ELSE CHOOSE q \in 1..Len(t) : t[q] \in seps /\ SepsBefore(t, seps, q) = n - 1
Piece(t, seps, r) == SubSeq(t, NthSep(t, seps, r - 1) + 1, NthSep(t, seps, r) - 1)

(***************************************************************************)
(* Claims about pattern_from_string (SpecPattern)                          *)
(***************************************************************************)
\* Line r of the text exists, has a char at position i, and it is no space.
MarkedAt(t, r, i) ==
    /\ r <= PieceCount(t, {SLASH, NEWLINE})
    /\ i <= Len(Piece(t, {SLASH, NEWLINE}, r))
    /\ Piece(t, {SLASH, NEWLINE}, r)[i] # SPACE

\* C4: pattern_from_string returns exactly GUESS_COUNT rows of exactly
\* WORD_LENGTH booleans, and cell (r, i) is true exactly when line r of the
\* text, split on '/' and newline alike, exists and has a non-space char at
\* position i.
C4_GoalShapeOfText ==
    pc = "pat_done" =>
        /\ DOMAIN goal_shape = 1..GUESS_COUNT
        /\ \A r \in 1..GUESS_COUNT :
             /\ DOMAIN goal_shape[r] = 1..WORD_LENGTH
             /\ \A i \in 1..WORD_LENGTH :
                  /\ goal_shape[r][i] \in BOOLEAN
                  /\ goal_shape[r][i] = MarkedAt(art.text, r, i)

\* A text of more than GUESS_COUNT lines, split by both separators, with a
\* mark in its first line and one in a discarded line.
C4_Witness ==
    /\ pc = "pat_done"
    /\ PieceCount(art.text, {SLASH, NEWLINE}) > GUESS_COUNT
    /\ SLASH \in Range(art.text) /\ NEWLINE \in Range(art.text)
    /\ art.text[Len(art.text)] = 65
    /\ goal_shape[1][1]

(***************************************************************************)
(* Claims about find_matches (SpecFind)                                    *)
(***************************************************************************)
KeptIndices == {k \in 1..Len(all_words) : keeps(all_words[k], solution, goal_row)}
NthKept(j) == CHOOSE k \in KeptIndices : Cardinality({q \in KeptIndices : q < k}) = j - 1

\* C5: find_matches returns the dictionary's words that satisfy the predicate,
\* each once per occurrence and in the dictionary's order, whatever the order
\* in which the evaluations completed; an empty dictionary gives an empty list.
C5_StableFilter ==
    pc = "fm_done" =>
        /\ Len(matches) = Cardinality(KeptIndices)
        /\ \A j \in 1..Len(matches) : matches[j] = all_words[NthKept(j)]
        /\ (all_words = <<>>) => (matches = <<>>)

\* Two different kept words whose evaluations completed in the reverse of
\* their dictionary order.
C5_Witness ==
    /\ pc = "fm_done"
    /\ Len(matches) >= 2
    /\ matches[1] # matches[2]
    /\ \E a, b \in 1..Len(done_order) :
          /\ a < b /\ done_order[a] > done_order[b]
          /\ evaluated[done_order[a]] = "keep" /\ evaluated[done_order[b]] = "keep"

\* C2 as stated: with solution "SPEED" and only position 0 marked, the
\* candidate "SPEED" in the solution's case satisfies the predicate and is
\* kept by find_matches.
C2_SpeedIsKept ==
    (pc = "fm_done" /\ to_lowercase(solution) = S_speed /\ goal_row = OnlyFirst) =>
        \A k \in 1..Len(all_words) :
            (all_words[k] = solution) =>
                /\ does_match(all_words[k], solution, goal_row)
                /\ all_words[k] \in Range(matches)

\* C2, amended: with solution "SPEED" and only position 0 marked, the candidate
\* "SPEED" in the solution's case does not satisfy the predicate (its positions
\* 1-4 are green where the row is unmarked) and find_matches leaves it out.
C2_SpeedIsDropped ==
    (pc = "fm_done" /\ to_lowercase(solution) = S_speed /\ goal_row = OnlyFirst) =>
        \A k \in 1..Len(all_words) :
            (all_words[k] = solution) =>
                /\ ~does_match(all_words[k], solution, goal_row)
                /\ evaluated[k] = "drop"
                /\ all_words[k] \notin Range(matches)

\* The dictionary holds "speed", the solution is "speed", only position 0 is
\* marked, and some other word is kept.
C2_Witness ==
    /\ pc = "fm_done"
    /\ solution = S_speed
    /\ goal_row = OnlyFirst
    /\ S_speed \in Range(all_words)
    /\ matches # <<>>

(***************************************************************************)
(* Claims about format_example (SpecFormat)                                *)
(***************************************************************************)
Rendered(list) == {to_uppercase(list[k]) : k \in 1..Len(list)}
EmittedBefore(r) == {lines[j] : j \in 1..(r - 1)}

\* C6: the word emitted for a row is one of the row's candidates, and it
\* repeats an earlier row's word only if every candidate of the row had
\* already been emitted for an earlier row.
C6_ReuseOnlyWhenUnavoidable ==
    \A r \in 1..Len(lines) :
        answer[r] # <<>> =>
            /\ lines[r] \in Rendered(answer[r])
            /\ lines[r] \in EmittedBefore(r) => Rendered(answer[r]) \subseteq EmittedBefore(r)

\* Two rendered rows with overlapping Candidate Lists of more than one word,
\* the second of which avoided the first's word.
C6_Witness ==
    /\ Len(lines) >= 2
    /\ Len(answer[1]) > 1 /\ Len(answer[2]) > 1
    /\ lines[1] \in Rendered(answer[2])
    /\ lines[2] # lines[1]

\* C7: a row with no candidate is rendered as "[no solution]" and leaves
\* used_words as it was; nothing fails, the later rows are rendered, and the
\* output has exactly one line per row of the Answer, in row order.
C7_NoSolutionSentinel ==
    /\ [](/\ pc # "panicked"
          /\ \A r \in 1..Len(lines) : (answer[r] = <<>>) => (lines[r] = NO_SOLUTION)
          /\ pc = "print" =>
               /\ Len(lines) = Len(answer)
               /\ PieceCount(output, {NEWLINE}) = Len(answer)
               /\ \A r \in 1..Len(answer) : Piece(output, {NEWLINE}, r) = lines[r])
    /\ [][(pc = "fe_sample" /\ answer[Len(lines) + 1] = <<>>) =>
              /\ lines' = Append(lines, NO_SOLUTION)
              /\ used_words' = used_words
              /\ pc' = "fe_row"]_vars

\* The output is complete, a row without candidates got the sentinel, and the
\* row after it got a word.
C7_Witness ==
    /\ pc = "print"
    /\ \E r \in 1..(Len(answer) - 1) :
          /\ answer[r] = <<>> /\ lines[r] = NO_SOLUTION
          /\ answer[r + 1] # <<>> /\ lines[r + 1] # NO_SOLUTION

\* C9: the sampling pool of n >= 1 words keeps the Candidate List's order, the
\* entry at 0-based index k has weight (n - k)^2, so n^2 first and 1 last,
\* strictly decreasing and positive, and exactly the pool's indices can be
\* sampled.
C9_SquaredRankWeights ==
    pc = "fe_sample" =>
        LET n == Len(row_answers)
            all_row_answers == answer[Len(lines) + 1]
        IN  /\ row_answers = SelectSeq(all_row_answers, LAMBDA w : w \in Range(row_answers))
            /\ Len(weights) = n
            /\ \A k \in 0..(n - 1) : weights[k + 1] = (n - k) * (n - k)
            /\ n >= 1 => (weights[1] = n * n /\ weights[n] = 1)
            /\ \A k \in 1..(n - 1) : weights[k] > weights[k + 1]
            /\ \A k \in 1..n : weights[k] > 0 /\ ENABLED EmitWord(k)
            /\ sample_support(weights) = 1..n

\* A pool of at least two words, narrowed to the row's unused candidates.
C9_Witness ==
    /\ pc = "fe_sample"
    /\ Len(row_answers) >= 2
    /\ Len(row_answers) < Len(answer[Len(lines) + 1])

(***************************************************************************)
(* Claims about main (Spec)                                                *)
(***************************************************************************)
AllMarked == <<TRUE, TRUE, TRUE, TRUE, TRUE>>
NoneMarked == <<FALSE, FALSE, FALSE, FALSE, FALSE>>

\* A dictionary word whose first letter is 'a' and whose other letters are
\* grey, neither green nor yellow, against "about".
FirstAOthersGrey(w) ==
    /\ w[1] = 97
    /\ \A i \in 2..WORD_LENGTH : WordleColours(w, S_about)[i] = "grey"

\* C3 as stated: with solution "ABOUT" and pattern "A....", row 1 has only
\* position 0 marked and its Candidate List contains every dictionary word
\* that starts with 'a' and whose other letters are grey against "about".
C3_DotsLeaveOnlyFirstMarked ==
    (solution = S_ABOUT /\ art.kind = "pattern" /\ art.text = P_A_dots
        /\ Len(answer) >= 1) =>
        /\ goal_shape[1] = OnlyFirst
        /\ \A k \in 1..Len(all_words) :
             FirstAOthersGrey(all_words[k]) => all_words[k] \in Range(answer[1])

\* C3, amended: with solution "ABOUT" and pattern "A....", every position of
\* row 1 is marked ('.' is no space), the other rows are unmarked, and row 1's
\* Candidate List is the dictionary's occurrences of "about"; with pattern "A"
\* or "A    ", row 1 has only position 0 marked and its Candidate List holds
\* exactly the dictionary words that start with 'a' and whose other letters
\* are grey against "about".
C3_DotsMarkEveryPosition ==
    /\ (solution = S_ABOUT /\ art.kind = "pattern" /\ art.text = P_A_dots
          /\ Len(answer) >= 1) =>
          /\ goal_shape[1] = AllMarked
          /\ \A r \in 2..GUESS_COUNT : goal_shape[r] = NoneMarked
          /\ answer[1] = SelectSeq(all_words, LAMBDA w : w = S_about)
    /\ (solution = S_ABOUT /\ art.kind = "pattern" /\ art.text \in {P_A, P_A_spaces}
          /\ Len(answer) >= 1) =>
          /\ goal_shape[1] = OnlyFirst
          /\ \A r \in 2..GUESS_COUNT : goal_shape[r] = NoneMarked
          /\ answer[1] = SelectSeq(all_words, FirstAOthersGrey)

\* The run with solution "ABOUT" and pattern "A...." has ended; the dictionary
\* holds "about" and "aches", and row 1's Candidate List is "about" alone.
C3_Witness ==
    /\ pc = "done"
    /\ solution = S_ABOUT
    /\ art.kind = "pattern" /\ art.text = P_A_dots
    /\ S_aches \in Range(all_words)
    /\ answer[1] = <<S_about>>

\* C8 as stated: a solution that does not have exactly WORD_LENGTH chars aborts
\* the run at entry, before a Goal Shape, a search or any output; the search is
\* reached only with a solution of exactly WORD_LENGTH chars.
C8_FatalUnlessWordLengthChars ==
    /\ Len(solution) # WORD_LENGTH =>
          /\ pc \in {"main", "panicked"}
          /\ goal_shape = <<>> /\ answer = <<>> /\ output = <<>>
    /\ (pc \notin {"main", "panicked"} \/ answer # <<>>) => Len(solution) = WORD_LENGTH

====
